---- MODULE Spec2Model ----
(***************************************************************************)
(* Model of src/src/database/firebase.js: a local JSON database made of an *)
(* in-memory cache of tables, one JSON file per table, a debounced write   *)
(* per table (saveTable), a forced flush at shutdown (flushAll) and the    *)
(* record primitives get / set / del / getAll, plus the balance helpers of *)
(* the Database object.                                                    *)
(*                                                                         *)
(* JavaScript values are modelled as records [kind, num, props]:           *)
(*   kind  "undefined" | "null" | "number" | "object" | "array" |          *)
(*         "function" | "prototype"                                        *)
(*   num   the number, for kind "number"                                   *)
(*   props the own enumerable properties (name -> value), for objects and  *)
(*         arrays (an array's properties are its indices "0", "1", ...)    *)
(* A table object of the cache is [val, proto]: val is the value that      *)
(* JSON.parse (or the literal {}) produced, with the table's own           *)
(* properties in val.props, and proto is the object's [[Prototype]].       *)
(***************************************************************************)
EXTENDS Integers, Sequences, FiniteSets, TLC

VARIABLES
  cache,        \* cache[name]: the table object, or Undefined (line 13)
  writeQueues,  \* writeQueues[name]: the timer handle, or NoTimer (line 14)
  timers,       \* the live (armed, not cleared, not fired) timers of the event loop
  files,        \* files[name]: the content of data/<name>.json
  phase,        \* "running" | "exiting" | "terminated"
  last,         \* history: the operation that ran last, with its arguments and result
  hist          \* history: per-table bookkeeping used only by the properties

vars == <<cache, writeQueues, timers, files, phase, last, hist>>

---------------------------------------------------------------------------
(* Bounds of the model *)

MaxOps == 3        \* set/del calls of a behaviour of SpecApi
MaxCalls == 3      \* set/del/helper calls of a behaviour of Spec, SpecLive, SpecEcon
MaxTimers == 2     \* timer handles that can be alive or referenced at once
MaxBalance == 3    \* largest balance the economy specification reaches
MaxAmount == 2     \* largest amount passed to addBalance / removeBalance

---------------------------------------------------------------------------
(* JavaScript values *)

NoProps == [x \in {} |-> 0]

Undefined == [kind |-> "undefined", num |-> 0, props |-> NoProps]
Null == [kind |-> "null", num |-> 0, props |-> NoProps]
Num(n) == [kind |-> "number", num |-> n, props |-> NoProps]
Obj(p) == [kind |-> "object", num |-> 0, props |-> p]
Arr(p) == [kind |-> "array", num |-> 0, props |-> p]
\* a built-in function object, e.g. Object.prototype.constructor
BuiltinFn == [kind |-> "function", num |-> 0, props |-> NoProps]
\* a built-in prototype object (Object.prototype, Array.prototype, Number.prototype)
BuiltinProto == [kind |-> "prototype", num |-> 0, props |-> NoProps]

EmptyObj == Obj(NoProps)

\* typeof value === 'object' && value !== null && !Array.isArray(value)   (line 49)
IsPlainObject(v) == v.kind \in {"object", "prototype"}

\* x is "falsy" for || and if (...)
Falsy(v) == v.kind \in {"undefined", "null"} \/ (v.kind = "number" /\ v.num = 0)

\* x ?? null
NullishToNull(v) == IF v.kind \in {"undefined", "null"} THEN Null ELSE v

\* the properties an object spread {...x} copies: own enumerable ones
Spread(v) == IF v.kind \in {"object", "array"} THEN v.props ELSE NoProps

\* the names Object.prototype (and every built-in prototype) gives every object
InheritedDataKeys == {"constructor"}
ProtoKey == "__proto__"

---------------------------------------------------------------------------
(* Property access on a table object db = [val, proto] *)

\* db[key] (and delete db[key], db[key] = x) raises a TypeError when db is null or undefined
Throws(db) == db.val.kind \in {"undefined", "null"}

\* the lookup of key along the prototype chain, starting at the object proto
ChainGet(proto, key) ==
  IF proto.kind \in {"null", "undefined"} THEN Undefined
  ELSE IF key = ProtoKey THEN proto
  ELSE IF proto.kind \in {"object", "array"} /\ key \in DOMAIN proto.props
       THEN proto.props[key]
  ELSE IF key \in InheritedDataKeys THEN BuiltinFn
  ELSE Undefined

\* db[key], for db neither null nor undefined
PropGet(db, key) ==
  IF db.val.kind \in {"object", "array"} /\ key \in DOMAIN db.val.props
  THEN db.val.props[key]
  ELSE ChainGet(db.proto, key)

\* db[key] = v (sloppy mode): the table object afterwards
PropSet(db, key, v) ==
  IF db.val.kind \notin {"object", "array"} THEN db
  ELSE IF key \in DOMAIN db.val.props
       THEN [db EXCEPT !.val.props = (key :> v) @@ db.val.props]
  ELSE IF key = ProtoKey /\ db.proto.kind # "null"
       THEN IF v.kind \in {"object", "array", "function", "prototype", "null"}
            THEN [db EXCEPT !.proto = v]
            ELSE db
  ELSE [db EXCEPT !.val.props = (key :> v) @@ db.val.props]

\* delete db[key]: the table object afterwards
PropDelete(db, key) ==
  IF db.val.kind \in {"object", "array"} /\ key \in DOMAIN db.val.props
  THEN [db EXCEPT !.val.props = [x \in (DOMAIN db.val.props) \ {key} |-> db.val.props[x]]]
  ELSE db

---------------------------------------------------------------------------
(* Files and JSON *)

Absent == [state |-> "absent", val |-> Undefined]
Unparsable == [state |-> "unparsable", val |-> Undefined]
Json(v) == [state |-> "json", val |-> v]

NotLoaded == [val |-> Undefined, proto |-> Undefined]
NewObject == [val |-> EmptyObj, proto |-> BuiltinProto]

IndexKeys == {"0", "1"}

\* the value JSON.parse(JSON.stringify(v)) gives back
RECURSIVE JsonValue(_)
JsonValue(v) ==
  CASE v.kind = "object" ->
         Obj([x \in {y \in DOMAIN v.props : v.props[y].kind \notin {"undefined", "function"}}
                |-> JsonValue(v.props[x])])
    [] v.kind = "array" ->
         Arr([x \in (DOMAIN v.props) \cap IndexKeys
                |-> IF v.props[x].kind \in {"undefined", "function"}
                    THEN Null ELSE JsonValue(v.props[x])])
    [] v.kind = "prototype" -> EmptyObj
    [] OTHER -> v

\* JSON.stringify(cache[name] || {}, null, 2)                      (lines 36, 72)
Stringify(entry) == Json(JsonValue(IF Falsy(entry.val) THEN EmptyObj ELSE entry.val))

\* try { JSON.parse(fs.readFileSync(file)) } catch { {} }          (lines 23-27)
ParseFile(fc) ==
  IF fc.state = "json" THEN [val |-> fc.val, proto |-> BuiltinProto] ELSE NewObject

\* loadTable without its cache test: it reads the file on every call
LoadTableReread(c, f, name) == [c EXCEPT ![name] = ParseFile(f[name])]

\* the cache after loadTable(name)                                  (lines 20-29)
LoadTable(c, f, name) ==
  IF ~Falsy(c[name].val) THEN c ELSE [c EXCEPT ![name] = ParseFile(f[name])]

\* fs.writeFileSync inside try/catch: it succeeds, or fails before touching the
\* file, or fails after truncating it (a partial write)
Outcomes == {"ok", "fail", "torn"}

\* a write that reports success and leaves the file as it was
WriteFileNever(f, name, entry, o) == f

WriteFile(f, name, entry, o) ==
  CASE o = "ok" -> [f EXCEPT ![name] = Stringify(entry)]
    [] o = "torn" -> [f EXCEPT ![name] = Unparsable]
    [] OTHER -> f

---------------------------------------------------------------------------
(* The write scheduler *)

NoTimer == 0
TimerIds == 1..MaxTimers

\* the handles in use: those of live timers and those writeQueues still refers to
UsedIds(wq, tms) == {tm.id : tm \in tms} \cup {wq[n] : n \in DOMAIN wq}

CanArm(wq, tms) == TimerIds \ UsedIds(wq, tms) # {}

\* setTimeout returns a handle distinct from every handle in use
FreshId(wq, tms) == CHOOSE i \in TimerIds \ UsedIds(wq, tms) :
                      \A j \in TimerIds \ UsedIds(wq, tms) : i <= j

\* clearTimeout(handle)
ClearTimeout(tms, id) == {tm \in tms : tm.id # id}

\* saveTable without its clearTimeout: the superseded timer stays alive
SaveTableNoClear(wq, tms, name) ==
  LET free == TimerIds \ UsedIds(wq, tms)
      id == IF free = {} THEN wq[name] ELSE CHOOSE i \in free : \A j \in free : i <= j
  IN  [wq |-> [wq EXCEPT ![name] = id],
       timers |-> tms \cup {[id |-> id, name |-> name]}]

\* saveTable that arms nothing
SaveTableNoArm(wq, tms, name) == [wq |-> wq, timers |-> tms]

\* saveTable(name): [wq, timers] afterwards                          (lines 31-40)
SaveTable(wq, tms, name) ==
  LET cleared == IF wq[name] # NoTimer THEN ClearTimeout(tms, wq[name]) ELSE tms
      freed == [wq EXCEPT ![name] = NoTimer]
      id == FreshId(freed, cleared)
  IN  [wq |-> [wq EXCEPT ![name] = id],
       timers |-> cleared \cup {[id |-> id, name |-> name]}]

\* Object.keys(writeQueues)                                          (line 69)
QueuedNames(wq) == {n \in DOMAIN wq : wq[n] # NoTimer}

\* flushAll that cancels the timers and writes nothing
FlushAllNoWrite(wq, tms, f, c, o) ==
  [timers |-> {tm \in tms : tm.id \notin {wq[n] : n \in QueuedNames(wq)}},
   files |-> f]

\* flushAll whose loop ends after the first queued table
FlushAllFirstOnly(wq, tms, f, c, o) ==
  LET first == IF QueuedNames(wq) = {} THEN {}
               ELSE {CHOOSE n \in QueuedNames(wq) : TRUE}
  IN  [timers |-> {tm \in tms : tm.id \notin {wq[n] : n \in first}},
       files |-> [n \in DOMAIN f |->
                    IF n \in first THEN WriteFile(f, n, c[n], o[n])[n] ELSE f[n]]]

\* flushAll(), the write of table n ending as o[n]: [timers, files] afterwards
\*                                                                   (lines 68-75)
FlushAll(wq, tms, f, c, o) ==
  [timers |-> {tm \in tms : tm.id \notin {wq[n] : n \in QueuedNames(wq)}},
   files |-> [n \in DOMAIN f |->
                IF n \in QueuedNames(wq) THEN WriteFile(f, n, c[n], o[n])[n] ELSE f[n]]]

---------------------------------------------------------------------------
(* The record primitives, as functions of the table object *)

\* db[key] ?? null                                                   (line 44)
GetRecord(db, key) == NullishToNull(PropGet(db, key))

\* set that assigns the value whatever it is, without the merge
SetRecordReplace(db, key, value) == PropSet(db, key, value)

\* lines 49-53 of set
SetRecord(db, key, value) ==
  IF IsPlainObject(value)
  THEN LET old == PropGet(db, key)
           base == IF Falsy(old) THEN EmptyObj ELSE old
       IN  PropSet(db, key, Obj(Spread(value) @@ Spread(base)))
  ELSE PropSet(db, key, value)

\* line 59 of del
DelRecord(db, key) == PropDelete(db, key)

---------------------------------------------------------------------------
(* State *)

Tables == {"t1", "users"}

\* last.op       the operation: "get", "set", "del", "getAll", "timer", "flushAll", ...
\* last.t, k, v  its arguments
\* last.pre      what get(t, k) returned, or would have, when the operation began
\* last.before   the table object when the operation began (after its loadTable)
\* last.follows  the operation before it was a set on the same table and key
\* last.ret      what the operation returned
\* last.raised   the operation raised an error to its caller
\* last.loaded   the value its loadTable put into the cache (Undefined: none)
\* last.n        for a timer: hist.calls[t] when it expired
\* last.ok       no write attempt of the operation failed
NoOp == [op |-> "none", t |-> "", k |-> "", v |-> Undefined, pre |-> Undefined,
         before |-> [val |-> Undefined, proto |-> Undefined], follows |-> FALSE,
         ret |-> Undefined, raised |-> FALSE, loaded |-> Undefined, n |-> 0, ok |-> TRUE]

NoWrite == [state |-> "none", val |-> Undefined]

\* hist.ops       set/del/balance calls so far
\* hist.restarted the process has been restarted
\* hist.calls[t]  set/del calls on t since t's last timer expiry in this run
\* hist.bursts[t] how often a set/del on t found calls[t] = 0 in this run
\* hist.writes[t] write attempts on t's file by expiring timers in this run
\* hist.written[t] the keys set was called with on t (without raising)
\* hist.mutated   the tables set or del was called on (without raising) in this run
\* hist.failed[t] t's latest write attempt since its last set/del failed
\* hist.flushed[t] a write of t's file succeeded since t's marker was last armed
\* hist.anyFailed some write attempt of this run failed
\* hist.lastGood[t] what the latest successful write of t's file wrote
\* hist.expect[j] the balance of j the first balance helper of this run read,
\*                plus the amounts added and less the amounts removed (down to
\*                0) by the helper calls on j since
\* hist.route     how the shutdown began: "none" | "exit" | "SIGINT" | "SIGTERM"
\* hist.atExit    the tables with calls[t] > 0 when the shutdown began
\* hist.nflush    flushAll invocations of this shutdown
HistInit ==
  [ops |-> 0, restarted |-> FALSE,
   calls |-> [t \in Tables |-> 0], bursts |-> [t \in Tables |-> 0],
   writes |-> [t \in Tables |-> 0], written |-> [t \in Tables |-> {}],
   mutated |-> {},
   failed |-> [t \in Tables |-> FALSE], anyFailed |-> FALSE,
   flushed |-> [t \in Tables |-> FALSE],
   expect |-> NoProps,
   lastGood |-> [t \in Tables |-> NoWrite],
   route |-> "none", atExit |-> {}, nflush |-> 0]

InitWith(fileSets) ==
  /\ cache = [t \in Tables |-> NotLoaded]
  /\ writeQueues = [t \in Tables |-> NoTimer]
  /\ timers = {}
  /\ files \in fileSets
  /\ phase = "running"
  /\ last = NoOp
  /\ hist = HistInit

\* the bookkeeping of a set or del on t that did not raise
Mutated(h, t) ==
  [h EXCEPT !.ops = @ + 1,
            !.calls[t] = @ + 1,
            !.bursts[t] = IF h.calls[t] = 0 THEN @ + 1 ELSE @,
            !.mutated = @ \cup {t},
            !.failed[t] = FALSE,
            !.flushed[t] = FALSE]

\* the bookkeeping of a write attempt on t's file that ended as o
Wrote(h, t, entry, o) ==
  [h EXCEPT !.failed[t] = (o # "ok"),
            !.anyFailed = @ \/ (o # "ok"),
            !.flushed[t] = @ \/ (o = "ok"),
            !.lastGood[t] = IF o = "ok" THEN Stringify(entry) ELSE @]

---------------------------------------------------------------------------
(* The record primitives *)

\* get(table, key)                                                   (lines 42-45)
Get(t, k) ==
  /\ phase = "running"
  /\ LET c1 == LoadTable(cache, files, t)
         db == c1[t]
     IN  /\ cache' = c1
         /\ last' = [NoOp EXCEPT !.op = "get", !.t = t, !.k = k,
                       !.raised = Throws(db),
                       !.ret = IF Throws(db) THEN Undefined ELSE GetRecord(db, k),
                       !.loaded = IF c1 # cache THEN db.val ELSE Undefined]
  /\ UNCHANGED <<writeQueues, timers, files, phase, hist>>

\* set(table, key, value)                                            (lines 47-55)
Set(t, k, v) ==
  /\ phase = "running"
  /\ LET c1 == LoadTable(cache, files, t)
         db == c1[t]
         sv == SaveTable(writeQueues, timers, t)
         l == [NoOp EXCEPT !.op = "set", !.t = t, !.k = k, !.v = v,
                 !.raised = Throws(db), !.before = db,
                 !.pre = IF Throws(db) THEN Undefined ELSE GetRecord(db, k),
                 !.loaded = IF c1 # cache THEN db.val ELSE Undefined]
     IN  IF Throws(db)
         THEN /\ cache' = c1
              /\ last' = l
              /\ UNCHANGED <<writeQueues, timers, hist>>
         ELSE /\ CanArm([writeQueues EXCEPT ![t] = NoTimer],
                        ClearTimeout(timers, writeQueues[t]))
              /\ cache' = [c1 EXCEPT ![t] = SetRecord(db, k, v)]
              /\ writeQueues' = sv.wq
              /\ timers' = sv.timers
              /\ last' = l
              /\ hist' = [Mutated(hist, t) EXCEPT !.written[t] = @ \cup {k}]
  /\ UNCHANGED <<files, phase>>

\* del(table, key)                                                   (lines 57-61)
Del(t, k) ==
  /\ phase = "running"
  /\ LET c1 == LoadTable(cache, files, t)
         db == c1[t]
         sv == SaveTable(writeQueues, timers, t)
         l == [NoOp EXCEPT !.op = "del", !.t = t, !.k = k,
                 !.raised = Throws(db), !.before = db,
                 !.follows = (last.op = "set" /\ last.t = t /\ last.k = k /\ ~last.raised),
                 !.pre = IF Throws(db) THEN Undefined ELSE GetRecord(db, k),
                 !.loaded = IF c1 # cache THEN db.val ELSE Undefined]
     IN  IF Throws(db)
         THEN /\ cache' = c1
              /\ last' = l
              /\ UNCHANGED <<writeQueues, timers, hist>>
         ELSE /\ CanArm([writeQueues EXCEPT ![t] = NoTimer],
                        ClearTimeout(timers, writeQueues[t]))
              /\ cache' = [c1 EXCEPT ![t] = DelRecord(db, k)]
              /\ writeQueues' = sv.wq
              /\ timers' = sv.timers
              /\ last' = l
              /\ hist' = Mutated(hist, t)
  /\ UNCHANGED <<files, phase>>

\* getAll(table)                                                     (lines 63-65)
GetAll(t) ==
  /\ phase = "running"
  /\ LET c1 == LoadTable(cache, files, t)
     IN  /\ cache' = c1
         /\ last' = [NoOp EXCEPT !.op = "getAll", !.t = t, !.ret = c1[t].val,
                       !.loaded = IF c1 # cache THEN c1[t].val ELSE Undefined]
  /\ UNCHANGED <<writeQueues, timers, files, phase, hist>>

---------------------------------------------------------------------------
(* Timers, shutdown, restart *)

\* the timer callback without its delete of the marker
TimerFireKeepMarker(tm, o) ==
  /\ phase = "running"
  /\ tm \in timers
  /\ files' = WriteFile(files, tm.name, cache[tm.name], o)
  /\ timers' = timers \ {tm}
  /\ last' = [NoOp EXCEPT !.op = "timer", !.t = tm.name, !.n = hist.calls[tm.name],
                !.ok = (o = "ok")]
  /\ hist' = [Wrote(hist, tm.name, cache[tm.name], o) EXCEPT
                !.calls[tm.name] = 0, !.writes[tm.name] = @ + 1]
  /\ UNCHANGED <<cache, writeQueues, phase>>

\* the callback of saveTable's timer tm; its write ends as o         (lines 34-39)
TimerFire(tm, o) ==
  /\ phase = "running"
  /\ tm \in timers
  /\ files' = WriteFile(files, tm.name, cache[tm.name], o)
  /\ writeQueues' = [writeQueues EXCEPT ![tm.name] = NoTimer]
  /\ timers' = timers \ {tm}
  /\ last' = [NoOp EXCEPT !.op = "timer", !.t = tm.name, !.n = hist.calls[tm.name],
                !.ok = (o = "ok")]
  /\ hist' = [Wrote(hist, tm.name, cache[tm.name], o) EXCEPT
                !.calls[tm.name] = 0, !.writes[tm.name] = @ + 1]
  /\ UNCHANGED <<cache, phase>>

\* the bookkeeping of a flushAll whose writes end as o
Flushed(h, o) ==
  LET q == QueuedNames(writeQueues)
  IN  [h EXCEPT !.failed = [t \in Tables |-> IF t \in q THEN o[t] # "ok" ELSE @[t]],
                !.anyFailed = @ \/ (\E t \in q : o[t] # "ok"),
                !.flushed = [t \in Tables |-> @[t] \/ (t \in q /\ o[t] = "ok")],
                !.lastGood = [t \in Tables |->
                                IF t \in q /\ o[t] = "ok" THEN Stringify(cache[t]) ELSE @[t]],
                !.nflush = @ + 1]

FlushStep(o) ==
  LET fl == FlushAll(writeQueues, timers, files, cache, o)
  IN  /\ timers' = fl.timers
      /\ files' = fl.files
      /\ last' = [NoOp EXCEPT !.op = "flushAll",
                    !.ok = (\A t \in QueuedNames(writeQueues) : o[t] = "ok")]
      /\ UNCHANGED <<cache, writeQueues>>

FlushOutcomes == {o \in [Tables -> Outcomes] :
                    \A t \in Tables \ QueuedNames(writeQueues) : o[t] = "ok"}

\* the SIGINT / SIGTERM handler, up to its call of process.exit()    (lines 78-79)
Signal(sig, o) ==
  /\ phase = "running"
  /\ FlushStep(o)
  /\ phase' = "exiting"
  /\ hist' = [Flushed(hist, o) EXCEPT !.route = sig,
                !.atExit = {t \in Tables : hist.calls[t] > 0}]

\* the 'exit' handler: process.exit() of a signal handler, or of the host  (line 77)
Exit(o) ==
  /\ phase \in {"running", "exiting"}
  /\ FlushStep(o)
  /\ phase' = "terminated"
  /\ hist' = IF phase = "running"
             THEN [Flushed(hist, o) EXCEPT !.route = "exit",
                     !.atExit = {t \in Tables : hist.calls[t] > 0}]
             ELSE Flushed(hist, o)

\* the next process: lines 13-14 run again, the files stay
Restart ==
  /\ phase = "terminated"
  /\ cache' = [t \in Tables |-> NotLoaded]
  /\ writeQueues' = [t \in Tables |-> NoTimer]
  /\ timers' = {}
  /\ phase' = "running"
  /\ last' = [NoOp EXCEPT !.op = "restart"]
  /\ hist' = [HistInit EXCEPT !.restarted = TRUE, !.ops = hist.ops,
                        !.written = hist.written,
                        !.lastGood = hist.lastGood]
  /\ UNCHANGED files

---------------------------------------------------------------------------
(* SpecApi: the record primitives on one table, with every kind of key and value *)

AX == Obj("a" :> Obj("x" :> Num(1)))
AY == Obj("a" :> Obj("y" :> Num(2)))
B2 == Obj("b" :> Num(2))
List7 == Arr("0" :> Num(7))

ApiTables == {"t1"}
Keys == {"k1", "constructor", ProtoKey}
ObjectValues == {AX, AY, B2}
OtherValues == {List7, Num(0), Null}
Values == ObjectValues \cup OtherValues

ApiFiles ==
  {f \in [Tables -> {Absent, Unparsable, Json(Obj("k1" :> AX))}] : f["users"] = Absent}

InitApi == InitWith(ApiFiles)

NextApi ==
  \/ \E t \in ApiTables, k \in Keys : Get(t, k)
  \/ hist.ops < MaxOps /\ \E t \in ApiTables, k \in Keys, v \in Values : Set(t, k, v)
  \/ hist.ops < MaxOps /\ \E t \in ApiTables, k \in Keys : Del(t, k)
  \/ \E t \in ApiTables : GetAll(t)

SpecApi == InitApi /\ [][NextApi]_vars

---------------------------------------------------------------------------
(* Spec: the whole store, with timers, write failures, shutdown and restart *)

SchedTables == {"t1", "users"}
SchedKeys == {"k1"}
SchedValues == {B2}

SchedFiles ==
  {f \in [Tables -> {Absent, Unparsable, Json(Obj("k1" :> AX))}] : f["users"] = Absent}

Init == InitWith(SchedFiles)

Next ==
  \/ \E t \in SchedTables, k \in SchedKeys : Get(t, k)
  \/ hist.ops < MaxCalls /\ \E t \in SchedTables, k \in SchedKeys, v \in SchedValues : Set(t, k, v)
  \/ hist.ops < MaxCalls /\ \E t \in SchedTables, k \in SchedKeys : Del(t, k)
  \/ \E tm \in timers, o \in Outcomes : TimerFire(tm, o)
  \/ \E sig \in {"SIGINT", "SIGTERM"}, o \in FlushOutcomes : Signal(sig, o)
  \/ \E o \in FlushOutcomes : Exit(o)
  \/ Restart

Spec == Init /\ [][Next]_vars

---------------------------------------------------------------------------
(* Claims about the record primitives, checked under SpecApi *)

\* what get(t, k) returns in the current state, for a loaded table
GetNow(t, k) == GetRecord(cache[t], k)

\* C1: after set(T, K, v) with a structured object v, get(T, K) has exactly the
\* fields of the former object record r and of v, v's value where v has the field
\* and r's value where only r has it, nested values taken whole; when K had no
\* record before (get gave null, or what Object.prototype has under K), get(T, K)
\* equals v.
C1_ShallowMerge ==
  (last.op = "set" /\ ~last.raised /\ last.v.kind = "object") =>
    LET r == last.pre
        v == last.v
        res == GetNow(last.t, last.k)
    IN  /\ r.kind = "object" =>
              /\ res.kind = "object"
              /\ DOMAIN res.props = (DOMAIN r.props) \cup (DOMAIN v.props)
              /\ \A f \in DOMAIN v.props : res.props[f] = v.props[f]
              /\ \A f \in (DOMAIN r.props) \ (DOMAIN v.props) : res.props[f] = r.props[f]
        /\ r.kind \in {"null", "function", "prototype"} => res = v

\* a set of an object over an object record that shares a field with it (with
\* another value) and has a field of its own
C1_Witness ==
  /\ last.op = "set" /\ ~last.raised
  /\ last.v.kind = "object" /\ last.pre.kind = "object"
  /\ \E f \in (DOMAIN last.pre.props) \cap (DOMAIN last.v.props) :
        last.pre.props[f] # last.v.props[f]
  /\ (DOMAIN last.pre.props) \ (DOMAIN last.v.props) # {}

\* C2: after set(T, K, v) with a list or scalar v, get(T, K) returns exactly v,
\* whatever was stored at K before.
C2_Replace ==
  (last.op = "set" /\ ~last.raised /\ last.v.kind # "object") =>
    GetNow(last.t, last.k) = last.v

\* C2 for the keys that are no property of Object.prototype
C2_ReplaceOrdinaryKey ==
  (last.op = "set" /\ ~last.raised /\ last.v.kind # "object"
     /\ last.k \notin InheritedDataKeys \cup {ProtoKey}) =>
    GetNow(last.t, last.k) = last.v

\* C3: get(T, K) for a key K that set never wrote in T and that is not in T's
\* file returns the absent marker null and raises nothing.
InFile(t, k) == files[t].state = "json" /\ k \in DOMAIN files[t].val.props

C3_AbsentKey ==
  (last.op = "get" /\ last.k \notin hist.written[last.t] /\ ~InFile(last.t, last.k)) =>
    (~last.raised /\ last.ret = Null)

\* C4: after set(T, K, v) then delete(T, K), get(T, K) is absent and getAll(T)
\* has no key K; a delete of a key with no record leaves the table's mapping as
\* it was; either way delete arms the table's pending write.
C4_Delete ==
  (last.op = "del" /\ ~last.raised) =>
    /\ last.follows =>
          /\ GetNow(last.t, last.k) = Null
          /\ last.k \notin DOMAIN cache[last.t].val.props
    /\ last.pre = Null => cache[last.t].val = last.before.val
    /\ writeQueues[last.t] # NoTimer
    /\ \E tm \in timers : tm.id = writeQueues[last.t] /\ tm.name = last.t

\* C19: after set(T, K, v) with a structured object v over a record that is
\* absent, a list or a scalar, get(T, K) equals v.
C19_ObjectOverNonObject ==
  (last.op = "set" /\ ~last.raised /\ last.v.kind = "object"
     /\ last.pre.kind \in {"null", "array", "number"}) =>
    GetNow(last.t, last.k) = last.v

\* C19 for a prior record that is absent or a number
C19_ObjectOverScalar ==
  (last.op = "set" /\ ~last.raised /\ last.v.kind = "object"
     /\ last.pre.kind \in {"null", "number"}) =>
    GetNow(last.t, last.k) = last.v

\* C20: get(T, K) returns the absent marker exactly when K is no key of the
\* mapping getAll(T) returns.
C20_GetAgreesWithGetAll ==
  \A t \in ApiTables, k \in Keys :
    cache[t] # NotLoaded =>
      ((GetNow(t, k) = Null) <=> (k \notin DOMAIN cache[t].val.props))

\* C20 for the keys that are no property of Object.prototype and records other
\* than null
C20_AgreesOnOrdinaryKeys ==
  \A t \in ApiTables, k \in Keys \ (InheritedDataKeys \cup {ProtoKey}) :
    cache[t] # NotLoaded =>
      ((GetNow(t, k) = Null) <=>
         (k \notin DOMAIN cache[t].val.props \/ cache[t].val.props[k] = Null))

---------------------------------------------------------------------------
(* Claims about the write scheduler, checked under Spec *)

LiveTimers(t) == {tm \in timers : tm.name = t}

Loaded(t) == cache[t] # NotLoaded

\* loading t's file afresh gives the mapping that t's cache serializes to
FileMatches(t) == ParseFile(files[t]).val = Stringify(cache[t]).val

\* C5: the set/del calls on a table between two timer expiries leave one live
\* timer, whose expiry is the one write of the table's file for all of them and
\* writes the in-memory mapping of that instant; no superseded timer stays alive
\* to write.
C5_Coalesce ==
  /\ \A t \in Tables : Cardinality(LiveTimers(t)) <= 1
  /\ phase = "running" =>
        \A t \in Tables :
          /\ (hist.calls[t] > 0) = (LiveTimers(t) # {})
          /\ hist.writes[t] = hist.bursts[t] - (IF hist.calls[t] > 0 THEN 1 ELSE 0)
  /\ last.op = "timer" =>
        /\ last.n >= 1
        /\ LiveTimers(last.t) = {}
        /\ last.ok => files[last.t] = Stringify(cache[last.t])

\* a timer expires after two or more calls and writes
C5_Witness == last.op = "timer" /\ last.n >= 2 /\ last.ok /\ hist.writes[last.t] = 1

\* C6: when the process has terminated by exit, SIGINT or SIGTERM, flushAll has
\* run, and unless a write failed in this run the file of every table that had a
\* set or del not yet written when the shutdown began holds the table's
\* in-memory mapping.
C6_FlushOnExit ==
  phase = "terminated" =>
    /\ hist.route \in {"exit", "SIGINT", "SIGTERM"}
    /\ hist.nflush >= 1
    /\ ~hist.anyFailed => \A t \in hist.atExit : files[t] = Stringify(cache[t])

\* a termination by signal with a set or del still unwritten, and no failure
C6_Witness ==
  /\ phase = "terminated" /\ hist.route = "SIGTERM" /\ ~hist.anyFailed
  /\ \E t \in hist.atExit : files[t] = Stringify(cache[t]) /\ hist.written[t] # {}

\* C7 as claimed: after a flushAll none of whose writes failed, the file of every
\* cached table matches the table's in-memory mapping.
C7_FlushAllSyncsEveryCachedTable ==
  (last.op = "flushAll" /\ last.ok) => \A t \in Tables : Loaded(t) => FileMatches(t)

\* C7 as amended: ... every cached table whose latest write attempt since its
\* last set or del, by a timer or by this flushAll, did not fail.
C7_FlushAllSyncsUnfailedTables ==
  (last.op = "flushAll" /\ last.ok) =>
    \A t \in Tables : (Loaded(t) /\ ~hist.failed[t]) => FileMatches(t)

\* a flushAll that wrote one table, with another table cached and not queued
C7_Witness ==
  /\ last.op = "flushAll" /\ last.ok /\ hist.nflush = 1
  /\ \E t \in hist.atExit : ~hist.failed[t] /\ files[t] = Stringify(cache[t])
  /\ \E t \in Tables : Loaded(t) /\ writeQueues[t] = NoTimer

\* C8: the first access to a table after a restart loads the mapping that the
\* latest successful write of its file wrote.
C8_RoundTrip ==
  (last.loaded # Undefined /\ hist.lastGood[last.t] # NoWrite) =>
    last.loaded = hist.lastGood[last.t].val

\* C11: a table that has a pending-write marker has had no write of its file,
\* by a timer or by flushAll, since the marker was last armed: every write of
\* the table's file leaves the table without a marker until the next set or del.
C11_PendingMarker ==
  \A t \in Tables : writeQueues[t] # NoTimer => ~hist.flushed[t]

\* C11 for the writes of expiring timers alone
C11_PendingMarkerWhileRunning ==
  phase = "running" => \A t \in Tables : writeQueues[t] # NoTimer => ~hist.flushed[t]

\* C12: a table's file holds its initial content until a write of it, and from
\* then on what the table's in-memory mapping serialized to at the instant of
\* the latest write.
C12_Snapshot ==
  \A t \in Tables :
    \/ files[t] = hist.lastGood[t]
    \/ hist.lastGood[t] = NoWrite /\ files[t] \in {Absent, Unparsable, Json(Obj("k1" :> AX))}

\* C12 for the files that parse: a write that tears the file is the one exception
C12_SnapshotWhenParsable ==
  \A t \in Tables :
    (files[t].state = "json" /\ hist.lastGood[t] # NoWrite) => files[t] = hist.lastGood[t]

\* C13: when the write of an expiring timer of table T fails, nothing is raised,
\* T's in-memory mapping is as before (so get and getAll serve it), T has no
\* marker and no live timer, and a timer of T comes to life again only by a set
\* or del on T.
C13_ScheduledWriteFailure ==
  /\ []((last.op = "timer" /\ ~last.ok) =>
          /\ ~last.raised
          /\ writeQueues[last.t] = NoTimer
          /\ LiveTimers(last.t) = {})
  /\ [][(last'.op = "timer" /\ ~last'.ok) =>
          /\ cache' = cache
          /\ \A k \in SchedKeys : GetRecord(cache'[last'.t], k) = GetRecord(cache[last'.t], k)]_vars
  /\ [][\A t \in Tables :
          (LiveTimers(t) = {} /\ LiveTimers(t)' # {}) =>
            (last'.op \in {"set", "del"} /\ last'.t = t /\ ~last'.raised)]_vars

\* a timer's write has failed and left the file behind the in-memory mapping
C13_Witness ==
  /\ last.op = "timer" /\ ~last.ok
  /\ hist.written[last.t] # {}
  /\ ~FileMatches(last.t)

\* C15: get(T, K) arms no timer, cancels none, writes no file and changes no
\* table's in-memory mapping; it can only populate the cache entry of a T that
\* was not loaded.
C15_GetReadOnly ==
  [][last'.op = "get" =>
       /\ writeQueues' = writeQueues
       /\ timers' = timers
       /\ files' = files
       /\ \A t \in Tables : (t # last'.t \/ Loaded(t)) => cache'[t] = cache[t]
       /\ ~Loaded(last'.t) => cache'[last'.t] = ParseFile(files[last'.t])]_vars

\* a get on a loaded table whose write is pending
C15_Witness ==
  /\ last.op = "get" /\ last.loaded = Undefined
  /\ LiveTimers(last.t) # {}
  /\ ~FileMatches(last.t)

\* C17: a flushAll invoked after another flushAll of the same shutdown changes
\* no in-memory mapping, no marker and no file of a table already flushed.
C17_IdempotentFlush ==
  [][(last'.op = "flushAll" /\ hist.nflush >= 1) =>
       /\ cache' = cache
       /\ writeQueues' = writeQueues
       /\ \A t \in Tables : hist.flushed[t] => files'[t] = files[t]]_vars

\* C17 for a second flushAll whose writes succeed
C17_IdempotentWhenWritesSucceed ==
  [][(last'.op = "flushAll" /\ hist.nflush >= 1 /\ last'.ok) =>
       /\ cache' = cache
       /\ writeQueues' = writeQueues
       /\ \A t \in Tables : hist.flushed[t] => files'[t] = files[t]]_vars

\* C18: while no write of the run has failed, a loaded table without marker is
\* clean: loading its file afresh gives its in-memory mapping.
C18_CleanWithoutMarker ==
  ~hist.anyFailed =>
    \A t \in Tables : (Loaded(t) /\ writeQueues[t] = NoTimer) => ParseFile(files[t]) = cache[t]

\* a table that was set and then written by its timer
C18_Witness ==
  /\ ~hist.anyFailed
  /\ \E t \in Tables :
        /\ Loaded(t) /\ writeQueues[t] = NoTimer
        /\ hist.writes[t] >= 1 /\ hist.written[t] # {}
        /\ cache[t].val.props # NoProps

---------------------------------------------------------------------------
(* SpecLive: the running store under fair timers *)

AllTimers == [id : TimerIds, name : Tables]

NextLive ==
  \/ \E t \in SchedTables, k \in SchedKeys : Get(t, k)
  \/ hist.ops < MaxCalls /\ \E t \in SchedTables, k \in SchedKeys, v \in SchedValues : Set(t, k, v)
  \/ hist.ops < MaxCalls /\ \E t \in SchedTables, k \in SchedKeys : Del(t, k)
  \/ \E tm \in timers, o \in Outcomes : TimerFire(tm, o)
  \/ \E o \in FlushOutcomes : Exit(o)

\* an armed timer that is neither cleared nor cut off by the exit expires
TimerFairness == \A tm \in AllTimers : WF_vars(\E o \in Outcomes : TimerFire(tm, o))

SpecLive == Init /\ [][NextLive]_vars /\ TimerFairness

\* C14: if the process keeps running and no write fails, then from some point
\* on (once the set and del calls on T have ended and T's timer has expired)
\* T's file holds T's in-memory mapping and T has no marker.
C14_EventualPersistence ==
  \A t \in Tables :
    ([](phase = "running") /\ []~hist.anyFailed) =>
      <>[](Loaded(t) => (ParseFile(files[t]) = cache[t] /\ writeQueues[t] = NoTimer))

\* all the calls are made, the last ones on one table, whose timer has written
C14_Witness ==
  /\ phase = "running" /\ ~hist.anyFailed
  /\ hist.ops = MaxCalls
  /\ last.op = "timer" /\ last.n >= 2
  /\ files[last.t] = Stringify(cache[last.t])
  /\ writeQueues[last.t] = NoTimer
  /\ timers = {}

---------------------------------------------------------------------------
(* SpecAnyJson: the record primitives on a table whose file holds any JSON value *)

AnyJsonFileContents ==
  {Absent, Unparsable, Json(Null), Json(Num(0)), Json(Num(5)), Json(Arr(NoProps)),
   Json(EmptyObj), Json(Obj("k1" :> AX))}

AnyJsonFiles == {f \in [Tables -> AnyJsonFileContents] : f["users"] = Absent}

AnyJsonKeys == {"k1", "constructor"}
AnyJsonValues == {B2, Num(0)}

InitAnyJson == InitWith(AnyJsonFiles)

NextAnyJson ==
  \/ \E k \in AnyJsonKeys : Get("t1", k)
  \/ hist.ops < MaxOps /\ \E k \in AnyJsonKeys, v \in AnyJsonValues : Set("t1", k, v)
  \/ hist.ops < MaxOps /\ \E k \in AnyJsonKeys : Del("t1", k)
  \/ GetAll("t1")
  \/ \E tm \in timers, o \in Outcomes : TimerFire(tm, o)

SpecAnyJson == InitAnyJson /\ [][NextAnyJson]_vars

\* C9: whatever the table's file holds, get, set, del and getAll raise nothing,
\* the loadTable inside them leaves a key-to-record mapping in the cache, and that
\* mapping is empty when it was loaded from an absent or unparsable file.
C9_Infallible ==
  (last.op \in {"get", "set", "del", "getAll"}) =>
    /\ ~last.raised
    /\ cache[last.t].val.kind = "object"
    /\ (last.loaded # Undefined /\ files[last.t] \in {Absent, Unparsable}) =>
          last.loaded = EmptyObj

---------------------------------------------------------------------------
(* The balance helpers of Database, and SpecEcon *)

\* user.balance, for the value user that get returned
Field(v, name) ==
  IF v.kind \in {"object", "array"} /\ name \in DOMAIN v.props
  THEN v.props[name] ELSE Undefined

\* (x || 0), for x a number or a falsy value (the balances of SpecEcon are numbers)
OrZero(v) == IF Falsy(v) THEN 0 ELSE v.num

\* get('users', jid) || { balance: 0 }                              (lines 103, 107)
UserOrDefault(rec) == IF Falsy(rec) THEN Obj("balance" :> Num(0)) ELSE rec

Max(a, b) == IF a >= b THEN a ELSE b

\* (user.balance || 0) + amount                                      (line 104)
AddedBalance(user, amount) == OrZero(Field(user, "balance")) + amount

\* the subtraction without Math.max
RemovedBalanceNoFloor(user, amount) == OrZero(Field(user, "balance")) - amount

\* Math.max(0, (user.balance || 0) - amount)                         (line 108)
RemovedBalance(user, amount) == Max(0, OrZero(Field(user, "balance")) - amount)

\* a read of the user record from the table's file instead of the cache: what a
\* helper would work on if other calls ran between its get and its set
UserNowFromFile(jid) == UserOrDefault(GetRecord(ParseFile(files["users"]), jid))

\* const user = get('users', jid) || { balance: 0 }, in the current state
UserNow(jid) == UserOrDefault(GetRecord(LoadTable(cache, files, "users")["users"], jid))

\* the bookkeeping of a helper call: the balance that all the helper calls on
\* jid so far amount to, read being what this call read
Expected(h, op, jid, amount, read) ==
  LET base == IF jid \in DOMAIN h.expect THEN h.expect[jid] ELSE read
  IN  IF op = "addBalance" THEN base + amount ELSE Max(0, base - amount)

\* the get('users', jid) and the set('users', jid, { balance: newBal }) of a
\* balance helper, in one turn of the event loop; op names the helper
StoreBalance(op, jid, amount, newBal) ==
  /\ phase = "running"
  /\ LET c1 == LoadTable(cache, files, "users")
         db == c1["users"]
         sv == SaveTable(writeQueues, timers, "users")
     IN  /\ ~Throws(db)
         /\ newBal <= MaxBalance
         /\ CanArm([writeQueues EXCEPT !["users"] = NoTimer],
                   ClearTimeout(timers, writeQueues["users"]))
         /\ cache' = [c1 EXCEPT !["users"] =
                        SetRecord(db, jid, Obj("balance" :> Num(newBal)))]
         /\ writeQueues' = sv.wq
         /\ timers' = sv.timers
         /\ last' = [NoOp EXCEPT !.op = op, !.t = "users", !.k = jid, !.n = amount,
                       !.pre = GetRecord(db, jid), !.before = db,
                       !.ret = IF op = "removeBalance" THEN Num(newBal) ELSE Undefined,
                       !.loaded = IF c1 # cache THEN db.val ELSE Undefined]
         /\ hist' = [Mutated(hist, "users") EXCEPT
                       !.written["users"] = @ \cup {jid},
                       !.expect = (jid :> Expected(hist, op, jid, amount,
                                      OrZero(Field(UserOrDefault(GetRecord(db, jid)), "balance"))))
                                  @@ @]
  /\ UNCHANGED <<files, phase>>

\* Database.addBalance(jid, amount)                                  (lines 102-105)
AddBalance(jid, amount) ==
  StoreBalance("addBalance", jid, amount, AddedBalance(UserNow(jid), amount))

\* Database.removeBalance(jid, amount)                               (lines 106-111)
RemoveBalance(jid, amount) ==
  StoreBalance("removeBalance", jid, amount, RemovedBalance(UserNow(jid), amount))

\* Database.getBalance(jid)                                          (lines 98-101)
GetBalance(jid) ==
  /\ phase = "running"
  /\ LET c1 == LoadTable(cache, files, "users")
         db == c1["users"]
         user == GetRecord(db, jid)
     IN  /\ ~Throws(db)
         /\ cache' = c1
         /\ last' = [NoOp EXCEPT !.op = "getBalance", !.t = "users", !.k = jid,
                       !.ret = Num(IF Falsy(user) THEN 0 ELSE OrZero(Field(user, "balance"))),
                       !.loaded = IF c1 # cache THEN db.val ELSE Undefined]
  /\ UNCHANGED <<writeQueues, timers, files, phase, hist>>

Jids == {"u1", ProtoKey}
Amounts == 0..MaxAmount

\* user records with a balance >= 0 or with none
EconFileContents ==
  {Absent, Unparsable, Json(Obj("u1" :> B2))}
    \cup {Json(Obj("u1" :> Obj("balance" :> Num(b)))) : b \in 0..1}

EconFiles == {f \in [Tables -> EconFileContents] : f["t1"] = Absent}

InitEcon == InitWith(EconFiles)

NextEcon ==
  \/ \E j \in Jids : GetBalance(j)
  \/ hist.ops < MaxCalls /\ \E j \in Jids, a \in Amounts : AddBalance(j, a)
  \/ hist.ops < MaxCalls /\ \E j \in Jids, a \in Amounts : RemoveBalance(j, a)
  \/ \E tm \in timers, o \in Outcomes : TimerFire(tm, o)
  \/ \E o \in FlushOutcomes : Exit(o)
  \/ Restart

SpecEcon == InitEcon /\ [][NextEcon]_vars

\* the balance stored for jid: the balance field of what get('users', jid) returns
StoredBalance(jid) == Field(GetNow("users", jid), "balance")

\* C10: under addBalance and removeBalance with amounts >= 0, from user records
\* whose balance is >= 0 or missing, no stored balance is negative, and a
\* removeBalance of more than the balance stores 0 and returns 0.
C10_BalanceFloor ==
  /\ \A j \in Jids :
        (Loaded("users") /\ StoredBalance(j).kind = "number") => StoredBalance(j).num >= 0
  /\ \A t \in Tables : files[t].state = "json" =>
        \A k \in DOMAIN files[t].val.props :
           Field(files[t].val.props[k], "balance").kind = "number" =>
             Field(files[t].val.props[k], "balance").num >= 0
  /\ (last.op = "removeBalance" /\ last.n > OrZero(Field(UserOrDefault(last.pre), "balance"))) =>
        /\ StoredBalance(last.k) = Num(0)
        /\ last.ret = Num(0)

\* a removeBalance of more than a positive balance
C10_Witness ==
  /\ last.op = "removeBalance"
  /\ Field(last.pre, "balance").kind = "number"
  /\ Field(last.pre, "balance").num > 0
  /\ last.n > Field(last.pre, "balance").num

\* C16: the get and the set of a balance helper run with nothing in between, so
\* no call's update is lost: the balance stored for jid is the balance the first
\* call read plus every amount added since (less every amount removed, down to
\* 0), in whatever order the calls ran.
C16_NoLostUpdate ==
  Loaded("users") =>
    \A j \in DOMAIN hist.expect : StoredBalance(j) = Num(hist.expect[j])

\* an addBalance on top of an earlier helper call that no timer has written yet
C16_Witness ==
  /\ last.op = "addBalance" /\ last.n > 0
  /\ hist.calls["users"] >= 2
  /\ Field(last.pre, "balance").kind = "number"
  /\ Field(last.pre, "balance").num > 0
  /\ LiveTimers("users") # {}

====
